---------------------------- MODULE Spec2Model ----------------------------
(***************************************************************************)
(* Student Academic Helper (src/academic_helper.py): a terminal program     *)
(* that keeps courses and assignments in one JSON file.                     *)
(*                                                                         *)
(* A text (a Python str) is a sequence of one-character strings, so that    *)
(* strip(), lower(), int() and float() are computed character by character. *)
(* A score is held in hundredths of a percent (92.5 is 9250): every score   *)
(* the inputs below can produce has at most two decimals.  A calendar date  *)
(* is a triple <<year, month, day>>.                                        *)
(***************************************************************************)
EXTENDS Integers, Sequences, FiniteSets, TLC

(***************************************************************************)
(* Texts                                                                    *)
(***************************************************************************)
\* U+2013, the dash of the seed course names, as one character.
EnDash == "u2013"

Whitespace == {" ", "\t", "\n"}

Uppers == <<"A", "B", "C", "D", "E", "F", "G", "H", "I", "J", "K", "L", "M",
            "N", "O", "P", "Q", "R", "S", "T", "U", "V", "W", "X", "Y", "Z">>

Lowers == <<"a", "b", "c", "d", "e", "f", "g", "h", "i", "j", "k", "l", "m",
            "n", "o", "p", "q", "r", "s", "t", "u", "v", "w", "x", "y", "z">>

Digits == <<"0", "1", "2", "3", "4", "5", "6", "7", "8", "9">>

RECURSIVE lstrip(_)
lstrip(s) ==
    IF s # <<>> /\ Head(s) \in Whitespace THEN lstrip(Tail(s)) ELSE s

RECURSIVE rstrip(_)
rstrip(s) ==
    IF s # <<>> /\ s[Len(s)] \in Whitespace
    THEN rstrip(SubSeq(s, 1, Len(s) - 1))
    ELSE s

\* str.strip()
strip(s) == rstrip(lstrip(s))

UpperSet == {Uppers[i] : i \in 1..Len(Uppers)}

LowerOf == [c \in UpperSet |-> Lowers[CHOOSE i \in 1..Len(Uppers) : Uppers[i] = c]]

lower_char(c) == IF c \in UpperSet THEN LowerOf[c] ELSE c

\* str.lower()
lower(s) == [i \in 1..Len(s) |-> lower_char(s[i])]

IsDigit(c) == \E i \in 1..Len(Digits) : Digits[i] = c

DigitVal(c) == (CHOOSE i \in 1..Len(Digits) : Digits[i] = c) - 1

AllDigits(s) == s # <<>> /\ \A i \in 1..Len(s) : IsDigit(s[i])

RECURSIVE DigitsVal(_)
DigitsVal(s) ==
    IF s = <<>> THEN 0
    ELSE 10 * DigitsVal(SubSeq(s, 1, Len(s) - 1)) + DigitVal(s[Len(s)])

\* int(s) of a stripped text: an optional sign and decimal digits; anything
\* else raises ValueError (ok = FALSE).
ParseInt(s) ==
    LET signed == s # <<>> /\ Head(s) \in {"+", "-"}
        body == IF signed THEN Tail(s) ELSE s
    IN  IF AllDigits(body)
        THEN [ok |-> TRUE,
              val |-> IF signed /\ Head(s) = "-" THEN 0 - DigitsVal(body)
                      ELSE DigitsVal(body)]
        ELSE [ok |-> FALSE, val |-> 0]

DotAt(s) == IF \E i \in 1..Len(s) : s[i] = "."
            THEN CHOOSE i \in 1..Len(s) : s[i] = "." /\ \A j \in 1..(i - 1) : s[j] # "."
            ELSE 0

\* float(s) of a stripped text, in hundredths: an optional sign, digits and
\* at most two decimals give a finite value; "nan" and "inf" (any case,
\* signed or not) give the two special values; every other text raises
\* ValueError.
ParseFloat(s) ==
    LET signed == s # <<>> /\ Head(s) \in {"+", "-"}
        neg == signed /\ Head(s) = "-"
        body == IF signed THEN Tail(s) ELSE s
        dot == DotAt(body)
        whole == IF dot = 0 THEN body ELSE SubSeq(body, 1, dot - 1)
        frac == IF dot = 0 THEN <<>> ELSE SubSeq(body, dot + 1, Len(body))
        mag == 100 * DigitsVal(whole)
               + (IF Len(frac) = 1 THEN 10 * DigitsVal(frac) ELSE DigitsVal(frac))
    IN  IF lower(body) = <<"n", "a", "n">> THEN [kind |-> "nan", val |-> 0]
        ELSE IF lower(body) \in {<<"i", "n", "f">>,
                                 <<"i", "n", "f", "i", "n", "i", "t", "y">>}
        THEN [kind |-> "inf", val |-> IF neg THEN -1 ELSE 1]
        ELSE IF /\ (whole # <<>> \/ frac # <<>>)
                /\ \A i \in 1..Len(whole) : IsDigit(whole[i])
                /\ \A i \in 1..Len(frac) : IsDigit(frac[i])
                /\ Len(frac) <= 2
        THEN [kind |-> "finite", val |-> IF neg THEN 0 - mag ELSE mag]
        ELSE [kind |-> "ValueError", val |-> 0]

(***************************************************************************)
(* Dates                                                                    *)
(***************************************************************************)
IsLeap(y) == (y % 4 = 0 /\ y % 100 # 0) \/ y % 400 = 0

DaysInMonth(y, m) ==
    IF m = 2 THEN (IF IsLeap(y) THEN 29 ELSE 28)
    ELSE IF m \in {4, 6, 9, 11} THEN 30 ELSE 31

\* date.max
date_max == <<9999, 12, 31>>

\* The order of datetime.date values.
DateLess(a, b) ==
    \/ a[1] < b[1]
    \/ a[1] = b[1] /\ a[2] < b[2]
    \/ a[1] = b[1] /\ a[2] = b[2] /\ a[3] < b[3]

DashPositions(s) == {i \in 1..Len(s) : s[i] = "-"}

\* datetime.strptime(s.strip(), "%Y-%m-%d").date(): four year digits, one or
\* two month digits, one or two day digits, and a date of the calendar;
\* anything else raises ValueError (ok = FALSE).
_parse_date_yyyy_mm_dd(s) ==
    LET t == strip(s)
        dashes == DashPositions(t)
        d1 == CHOOSE i \in dashes : \A j \in dashes : i <= j
        d2 == CHOOSE i \in dashes : \A j \in dashes : j <= i
        ys == SubSeq(t, 1, d1 - 1)
        ms == SubSeq(t, d1 + 1, d2 - 1)
        ds == SubSeq(t, d2 + 1, Len(t))
        y == DigitsVal(ys)
        m == DigitsVal(ms)
        d == DigitsVal(ds)
    IN  IF /\ Cardinality(dashes) = 2
           /\ AllDigits(ys) /\ Len(ys) = 4
           /\ AllDigits(ms) /\ Len(ms) \in {1, 2}
           /\ AllDigits(ds) /\ Len(ds) \in {1, 2}
           /\ y >= 1
           /\ m \in 1..12
           /\ d \in 1..DaysInMonth(y, m)
        THEN [ok |-> TRUE, date |-> <<y, m, d>>]
        ELSE [ok |-> FALSE, date |-> <<0, 0, 0>>]

RECURSIVE ZeroPad(_, _)
ZeroPad(n, width) ==
    IF width = 0 THEN <<>>
    ELSE Append(ZeroPad(n \div 10, width - 1), Digits[(n % 10) + 1])

\* date.isoformat()
isoformat(d) ==
    ZeroPad(d[1], 4) \o <<"-">> \o ZeroPad(d[2], 2) \o <<"-">> \o ZeroPad(d[3], 2)

NextDay(d) ==
    IF d[3] < DaysInMonth(d[1], d[2]) THEN <<d[1], d[2], d[3] + 1>>
    ELSE IF d[2] < 12 THEN <<d[1], d[2] + 1, 1>>
    ELSE <<d[1] + 1, 1, 1>>

\* d + timedelta(days=n)
RECURSIVE AddDays(_, _)
AddDays(d, n) == IF n = 0 THEN d ELSE AddDays(NextDay(d), n - 1)

(***************************************************************************)
(* The store: data = [courses |-> <<course>>, assignments |-> <<assignment>>]*)
(* course = [id, name]; assignment = [id, course_id, title, due_date,       *)
(* status, score, created_at].  None is the empty tuple and a float that    *)
(* may be None is a one-element tuple, so that the two can be compared.     *)
(***************************************************************************)
None == <<>>

Some(v) == <<v>>

EmptyData == [courses |-> <<>>, assignments |-> <<>>]

RECURSIVE MaxId(_)
MaxId(items) ==
    IF items = <<>> THEN 0
    ELSE LET rest == MaxId(Tail(items))
         IN  IF Head(items).id > rest THEN Head(items).id ELSE rest

_next_id_no_increment(items) == MaxId(items)

_next_id(items) == MaxId(items) + 1

RECURSIVE CourseByIdFrom(_, _, _)
CourseByIdFrom(courses, i, course_id) ==
    IF i > Len(courses) THEN None
    ELSE IF courses[i].id = course_id THEN Some(courses[i])
    ELSE CourseByIdFrom(courses, i + 1, course_id)

_get_course_by_id(data, course_id) ==
    CourseByIdFrom(data.courses, 1, course_id)

RECURSIVE CourseByNameFrom(_, _, _)
CourseByNameFrom(courses, i, name_norm) ==
    IF i > Len(courses) THEN None
    ELSE IF lower(strip(courses[i].name)) = name_norm THEN Some(courses[i])
    ELSE CourseByNameFrom(courses, i + 1, name_norm)

RECURSIVE CourseByExactNameFrom(_, _, _)
CourseByExactNameFrom(courses, i, name) ==
    IF i > Len(courses) THEN None
    ELSE IF strip(courses[i].name) = name THEN Some(courses[i])
    ELSE CourseByExactNameFrom(courses, i + 1, name)

_find_course_by_name_case_sensitive(data, name) ==
    CourseByExactNameFrom(data.courses, 1, strip(name))

_find_course_by_name(data, name) ==
    CourseByNameFrom(data.courses, 1, lower(strip(name)))

SeedName1 == <<"C", "S", " ", "3", "6", "1", " ", EnDash, " ",
               "S", "o", "f", "t", "w", "a", "r", "e", " ",
               "E", "n", "g", "i", "n", "e", "e", "r", "i", "n", "g", " ", "I">>

SeedName2 == <<"M", "T", "H", " ", "2", "6", "5", " ", EnDash, " ",
               "I", "n", "t", "r", "o", " ", "t", "o", " ",
               "S", "e", "r", "i", "e", "s">>

SeedName3 == <<"C", "S", " ", "3", "4", "0", " ", EnDash, " ",
               "I", "n", "t", "r", "o", " ", "t", "o", " ",
               "D", "a", "t", "a", "b", "a", "s", "e", "s">>

ensure_seed_data(data) ==
    IF data.courses # <<>> THEN data
    ELSE [data EXCEPT !.courses =
            <<[id |-> 1, name |-> SeedName1],
              [id |-> 2, name |-> SeedName2],
              [id |-> 3, name |-> SeedName3]>>]

(***************************************************************************)
(* The durable file.  Its content is absent, bytes that are not UTF-8, or   *)
(* a text: not JSON ([malformed |-> TRUE]) or one JSON value, held as       *)
(* [obj |-> members], [arr |-> items], [str |-> text], [int |-> n],         *)
(* [float |-> hundredths] or [null |-> TRUE].                               *)
(***************************************************************************)
json_null == [null |-> TRUE]

EncodeCourse(c) ==
    [obj |-> [id |-> [int |-> c.id], name |-> [str |-> c.name]]]

EncodeAssignment(a) ==
    [obj |-> [id |-> [int |-> a.id],
              course_id |-> [int |-> a.course_id],
              title |-> [str |-> a.title],
              due_date |-> [str |-> a.due_date],
              status |-> [str |-> a.status],
              score |-> IF a.score = None THEN json_null
                        ELSE [float |-> a.score[1]],
              created_at |-> [str |-> a.created_at]]]

\* json.dump of a state with the two collections.
json_dump(data) ==
    [obj |-> [courses |->
                [arr |-> [i \in 1..Len(data.courses) |->
                            EncodeCourse(data.courses[i])]],
              assignments |->
                [arr |-> [i \in 1..Len(data.assignments) |->
                            EncodeAssignment(data.assignments[i])]]]]

\* json.load of one JSON value: whatever the value is.
RECURSIVE json_decode(_)
json_decode(v) ==
    CASE DOMAIN v = {"obj"} -> [k \in DOMAIN v.obj |-> json_decode(v.obj[k])]
      [] DOMAIN v = {"arr"} -> [i \in 1..Len(v.arr) |-> json_decode(v.arr[i])]
      [] DOMAIN v = {"str"} -> v.str
      [] DOMAIN v = {"int"} -> v.int
      [] DOMAIN v = {"float"} -> Some(v.float)
      [] DOMAIN v = {"null"} -> None

\* dict.setdefault(key, default)
setdefault(d, key, default) ==
    IF key \in DOMAIN d THEN d ELSE [k \in DOMAIN d \cup {key} |->
                                       IF k = key THEN default ELSE d[k]]

AbsentFile == [kind |-> "absent"]

BytesFile == [kind |-> "bytes"]

TextFile(json) == [kind |-> "text", json |-> json]

\* _load_data: the value returned, or the exception that leaves it.
_load_data(file) ==
    IF file.kind = "absent" THEN [raised |-> "", data |-> EmptyData]
    ELSE IF file.kind = "bytes"
    THEN [raised |-> "UnicodeDecodeError", data |-> EmptyData]
    ELSE IF DOMAIN file.json = {"malformed"}
    THEN [raised |-> "", data |-> EmptyData]
    ELSE IF DOMAIN file.json # {"obj"}
    THEN [raised |-> "AttributeError", data |-> EmptyData]
    ELSE [raised |-> "",
          data |-> setdefault(setdefault(json_decode(file.json),
                                         "courses", <<>>),
                              "assignments", <<>>)]

\* _save_data: the content of the file afterwards.
_save_data(data) == TextFile(json_dump(data))

(***************************************************************************)
(* Queries                                                                  *)
(***************************************************************************)
COMPLETED == <<"C", "o", "m", "p", "l", "e", "t", "e", "d">>

NOT_STARTED == <<"N", "o", "t", " ", "S", "t", "a", "r", "t", "e", "d">>

IN_PROGRESS == <<"I", "n", " ", "P", "r", "o", "g", "r", "e", "s", "s">>

\* choose_status: statuses
statuses == <<NOT_STARTED, IN_PROGRESS, COMPLETED>>

RECURSIVE Filter_incomplete(_)
Filter_incomplete(items) ==
    IF items = <<>> THEN <<>>
    ELSE IF Head(items).status # COMPLETED
    THEN <<Head(items)>> \o Filter_incomplete(Tail(items))
    ELSE Filter_incomplete(Tail(items))

key_fn_date_only(a) ==
    LET r == _parse_date_yyyy_mm_dd(a.due_date)
    IN  <<IF r.ok THEN r.date ELSE date_max, 0>>

\* list_assignments_sorted.key_fn
key_fn(a) ==
    LET r == _parse_date_yyyy_mm_dd(a.due_date)
    IN  <<IF r.ok THEN r.date ELSE date_max, a.id>>

\* The order of the (date, int) keys.
KeyLess(k1, k2) ==
    \/ DateLess(k1[1], k2[1])
    \/ k1[1] = k2[1] /\ k1[2] < k2[2]

\* sorted(items, key=key_fn): a stable sort, as an insertion of each item
\* after the items whose key is not greater.
RECURSIVE InsertByKey(_, _)
InsertByKey(done, a) ==
    IF done = <<>> THEN <<a>>
    ELSE IF KeyLess(key_fn(a), key_fn(Head(done)))
    THEN <<a>> \o done
    ELSE <<Head(done)>> \o InsertByKey(Tail(done), a)

RECURSIVE SortFrom(_, _, _)
SortFrom(items, i, done) ==
    IF i > Len(items) THEN done
    ELSE SortFrom(items, i + 1, InsertByKey(done, items[i]))

sorted(items) == SortFrom(items, 1, <<>>)

list_assignments_sorted(data, only_incomplete) ==
    sorted(IF only_incomplete THEN Filter_incomplete(data.assignments)
           ELSE data.assignments)

RECURSIVE ScoredTruthy(_, _)
ScoredTruthy(items, course_id) ==
    IF items = <<>> THEN <<>>
    ELSE IF Head(items).course_id = course_id
            /\ Head(items).score # None /\ Head(items).score # Some(0)
    THEN <<Head(items)>> \o ScoredTruthy(Tail(items), course_id)
    ELSE ScoredTruthy(Tail(items), course_id)

\* current_grade_flow: scored
RECURSIVE Scored(_, _)
Scored(items, course_id) ==
    IF items = <<>> THEN <<>>
    ELSE IF Head(items).course_id = course_id /\ Head(items).score # None
    THEN <<Head(items)>> \o Scored(Tail(items), course_id)
    ELSE Scored(Tail(items), course_id)

\* sum(scores)
RECURSIVE SumScores(_)
SumScores(scored) ==
    IF scored = <<>> THEN 0
    ELSE Head(scored).score[1] + SumScores(Tail(scored))

\* What current_grade_flow reports for a course: "no data", or the scores
\* included and their mean as the fraction sum / count (in hundredths).
GradeOf(scored) ==
    IF scored = <<>>
    THEN [nodata |-> TRUE, scored |-> <<>>, sum |-> 0, count |-> 0]
    ELSE [nodata |-> FALSE, scored |-> scored,
          sum |-> SumScores(scored), count |-> Len(scored)]

current_grade_truthy(data, course) ==
    GradeOf(ScoredTruthy(data.assignments, course.id))

current_grade(data, course) == GradeOf(Scored(data.assignments, course.id))

(***************************************************************************)
(* Bounds and the texts the user may type                                   *)
(***************************************************************************)
\* The add-assignment flow saves while the store holds fewer assignments.
MaxAssignments == 2

T1(a) == <<a>>

MenuInputs == {T1("1"), T1("2"), T1("3"), T1("4"), T1("9"), <<" ", "1", " ">>}

CourseChoiceInputs == {T1("0"), T1("1"), T1("4"), T1("5"), T1("x"), <<"0", "0">>}

NameInputs ==
    {<<>>, <<" ", "\t">>, <<"A", "r", "t">>, <<" ", "A", "r", "t", "\t">>,
     <<" ", "c", "s", " ", "3", "4", "0", " ", EnDash, " ",
       "i", "n", "t", "r", "o", " ", "t", "o", " ",
       "d", "a", "t", "a", "b", "a", "s", "e", "s", " ">>}

TitleInputs == {<<>>, <<" ", "\t">>, <<" ", "H", "W", "1", " ">>}

DueChoiceInputs == {T1("0"), T1("1"), T1("2"), T1("x")}

DueManualInputs ==
    {<<"2", "0", "2", "5", "-", "2", "-", "2", "8">>,
     <<"2", "0", "2", "5", "-", "0", "2", "-", "3", "0">>,
     <<"0", "3", "/", "0", "2", "/", "2", "0", "2", "5">>}

\* What _today() may return.
Todays == {<<2025, 2, 27>>}

QuickInputs == {T1("0"), T1("1"), T1("5"), T1("x")}

StatusInputs == {<<>>, T1("0"), T1("1"), T1("4"), T1("x")}

ScoreInputs ==
    {<<>>, T1("0"), <<"1", "0", "0">>, <<"-", "0", ".", "0", "1">>,
     <<"1", "0", "0", ".", "0", "1">>, <<"a", "b", "c">>, <<"n", "a", "n">>}

ConfirmInputs == {T1("1"), T1("2"), <<>>}

AnotherInputs == {T1("1"), T1("2")}

DeadlinesInputs == {T1("m"), T1("D"), T1("x")}

NumberInputs == {T1("1"), T1("9"), T1("x")}

GradePickInputs == {T1("0"), T1("1"), T1("4"), T1("9"), T1("x")}

ExitInputs == {T1("1"), T1("2")}

\* What datetime.now().isoformat(timespec="seconds") may return.
Nows == {<<"2", "0", "2", "5", "-", "0", "2", "-", "2", "7",
           "T", "0", "9", ":", "0", "0", ":", "0", "0">>}

\* What the file may hold before the first run.
InitFiles ==
    {AbsentFile, BytesFile,
     TextFile([malformed |-> TRUE]),
     TextFile([arr |-> <<>>]),
     TextFile(json_null),
     TextFile([obj |-> <<>>]),
     TextFile([obj |-> [courses |-> [arr |-> <<>>]]]),
     TextFile(json_dump(EmptyData))}

(***************************************************************************)
(* The program.  pc is the read the program is waiting at ("pause" is       *)
(* _pause, which shows notice and goes on at resume); inp is the text the   *)
(* last read returned; exc is the exception that ended the process.         *)
(* pass_start records the store and the file at the start of the current    *)
(* pass of add_assignment_flow's loop.                                      *)
(***************************************************************************)
VARIABLES pc, resume, notice, inp, exc, data, file, pass_start,
          course, title, due_date, status, score, today,
          items, only_incomplete, detail, grade

vars == <<pc, resume, notice, inp, exc, data, file, pass_start,
          course, title, due_date, status, score, today,
          items, only_incomplete, detail, grade>>

add_locals == <<course, title, due_date, status, score, today>>

view_locals == <<items, only_incomplete, detail, grade>>

MSG_MENU == "Please enter 1, 2, 3, or 4. Press Enter to continue..."
MSG_NUMBER == "Please enter a number. Press Enter to continue..."
MSG_SELECTION == "Invalid selection. Press Enter to try again..."
MSG_NAME == "Course name is required. Press Enter to try again..."
MSG_EXISTS == "That course already exists. Press Enter to continue..."
MSG_TITLE == "Title is required. Press Enter to try again..."
MSG_DATE == "Invalid date format. Use YYYY-MM-DD. Press Enter to try again..."
MSG_SCORE_RANGE == "Score must be between 0 and 100. Press Enter to try again..."
MSG_SCORE_NUMBER == "Invalid number. Press Enter to try again..."
MSG_CANCELED == "Canceled. Nothing was saved. Press Enter to return..."
MSG_RANGE == "That number is out of range. Press Enter to continue..."
MSG_VALID_NUMBER == "Please enter a valid number. Press Enter to continue..."
MSG_OPTION == "Invalid option. Press Enter to continue..."

Goto(p) == pc' = p /\ resume' = "" /\ notice' = ""

\* _pause(msg), after which the program goes on at r.
Pause(msg, r) == pc' = "pause" /\ resume' = r /\ notice' = msg

ClearAdd ==
    /\ course' = None /\ title' = None /\ due_date' = None
    /\ status' = None /\ score' = None /\ today' = None
    /\ pass_start' = None

ClearView ==
    items' = None /\ only_incomplete' = FALSE /\ detail' = None /\ grade' = None

Init ==
    /\ pc = "start" /\ resume = "" /\ notice = "" /\ inp = <<>> /\ exc = ""
    /\ data = EmptyData
    /\ file \in InitFiles
    /\ pass_start = None
    /\ course = None /\ title = None /\ due_date = None
    /\ status = None /\ score = None /\ today = None
    /\ items = None /\ only_incomplete = FALSE /\ detail = None /\ grade = None

\* main, up to the first menu: load, seed, save.
MainStart ==
    /\ pc = "start"
    /\ LET r == _load_data(file)
           seeded == ensure_seed_data(r.data)
       IN  \/ /\ r.raised # ""
              /\ pc' = "crashed" /\ exc' = r.raised
              /\ UNCHANGED <<data, file>>
           \/ /\ r.raised = ""
              /\ pc' = "menu" /\ exc' = exc
              /\ data' = seeded
              /\ file' = _save_data(seeded)
    /\ UNCHANGED <<resume, notice, inp, pass_start, add_locals, view_locals>>

\* A flow returns to main, which loads the file again.
ReturnToMain ==
    /\ LET r == _load_data(file)
       IN  IF r.raised = ""
           THEN pc' = "menu" /\ data' = r.data /\ exc' = exc
           ELSE pc' = "crashed" /\ data' = data /\ exc' = r.raised
    /\ resume' = "" /\ notice' = ""
    /\ ClearAdd /\ ClearView
    /\ UNCHANGED file

\* The top of add_assignment_flow's loop, up to the course prompt.
BeginPass ==
    /\ Goto("course_choice")
    /\ pass_start' = Some([data |-> data, file |-> file])
    /\ course' = None /\ title' = None /\ due_date' = None
    /\ status' = None /\ score' = None /\ today' = None
    /\ UNCHANGED <<exc, data, file, view_locals>>

\* The top of upcoming_deadlines_flow's loop, up to its prompt.
ShowDeadlines ==
    LET listed == list_assignments_sorted(data, TRUE)
    IN  /\ items' = listed /\ only_incomplete' = TRUE /\ detail' = None
        /\ IF listed = <<>> THEN Goto("deadlines_empty") /\ exc' = exc
           ELSE IF \E i \in 1..Len(listed) :
                      ~_parse_date_yyyy_mm_dd(listed[i].due_date).ok
           THEN Goto("crashed") /\ exc' = "ValueError"
           ELSE Goto("deadlines_choice") /\ exc' = exc
        /\ UNCHANGED <<data, file, pass_start, add_locals, grade>>

rest == <<exc, data, file, pass_start, add_locals, view_locals>>

\* main: the menu prompt.
Menu ==
    /\ pc = "menu"
    /\ \E i \in MenuInputs :
        /\ inp' = i
        /\ LET choice == strip(i)
           IN  \/ choice = T1("1") /\ BeginPass
               \/ choice = T1("2") /\ ShowDeadlines
               \/ /\ choice = T1("3")
                  /\ Goto("grade_pick") /\ UNCHANGED rest
               \/ /\ choice = T1("4")
                  /\ Goto("exit_confirm") /\ UNCHANGED rest
               \/ /\ choice \notin {T1("1"), T1("2"), T1("3"), T1("4")}
                  /\ Pause(MSG_MENU, "menu") /\ UNCHANGED rest

\* _pause returns.
PressEnter ==
    /\ pc = "pause"
    /\ inp' = <<>>
    /\ \/ resume = "return" /\ ReturnToMain
       \/ resume = "new_pass" /\ BeginPass
       \/ resume = "deadlines" /\ ShowDeadlines
       \/ /\ resume \notin {"return", "new_pass", "deadlines"}
          /\ Goto(resume) /\ UNCHANGED rest

\* choose_or_create_course: the course prompt.
CourseChoice ==
    /\ pc = "course_choice"
    /\ \E i \in CourseChoiceInputs :
        /\ inp' = i
        /\ LET choice == strip(i)
               n == ParseInt(choice)
               count == Len(data.courses)
           IN  \/ choice = T1("0") /\ ReturnToMain
               \/ /\ choice # T1("0") /\ ~n.ok
                  /\ Pause(MSG_NUMBER, "course_choice") /\ UNCHANGED rest
               \/ /\ choice # T1("0") /\ n.ok /\ 1 <= n.val /\ n.val <= count
                  /\ course' = Some(data.courses[n.val])
                  /\ Goto("title")
                  /\ UNCHANGED <<exc, data, file, pass_start, title, due_date,
                                 status, score, today, view_locals>>
               \/ /\ choice # T1("0") /\ n.ok /\ n.val = count + 1
                  /\ Goto("course_name") /\ UNCHANGED rest
               \/ /\ choice # T1("0") /\ n.ok
                  /\ ~(1 <= n.val /\ n.val <= count + 1)
                  /\ Pause(MSG_SELECTION, "course_choice") /\ UNCHANGED rest

\* choose_or_create_course: new_course
new_course(d, name) == [id |-> _next_id(d.courses), name |-> name]

append_course_dropped(d, c) == d

\* choose_or_create_course: data["courses"].append(new_course)
append_course(d, c) == [d EXCEPT !.courses = Append(@, c)]

CourseCreated_unsaved(d, f, name) ==
    LET c == new_course(d, name)
        d2 == append_course(d, c)
    IN  [data |-> d2, file |-> f, course |-> c]

\* choose_or_create_course: a new course is made, appended and saved.
CourseCreated(d, f, name) ==
    LET c == new_course(d, name)
        d2 == append_course(d, c)
    IN  [data |-> d2, file |-> _save_data(d2), course |-> c]

\* choose_or_create_course: the name prompt.
CourseName ==
    /\ pc = "course_name"
    /\ \E i \in NameInputs :
        /\ inp' = i
        /\ LET name == strip(i)
               existing == _find_course_by_name(data, name)
               made == CourseCreated(data, file, name)
           IN  \/ /\ name = <<>>
                  /\ Pause(MSG_NAME, "course_choice") /\ UNCHANGED rest
               \/ /\ name # <<>> /\ existing # None
                  /\ course' = existing
                  /\ Pause(MSG_EXISTS, "title")
                  /\ UNCHANGED <<exc, data, file, pass_start, title, due_date,
                                 status, score, today, view_locals>>
               \/ /\ name # <<>> /\ existing = None
                  /\ data' = made.data
                  /\ file' = made.file
                  /\ course' = Some(made.course)
                  /\ Goto("title")
                  /\ UNCHANGED <<exc, pass_start, title, due_date,
                                 status, score, today, view_locals>>

read_title_unstripped(i) == i

\* add_assignment_flow: title
read_title(i) == strip(i)

\* add_assignment_flow: the title prompt.
Title ==
    /\ pc = "title"
    /\ \E i \in TitleInputs :
        /\ inp' = i
        /\ LET t == read_title(i)
           IN  \/ /\ t = <<>>
                  /\ Pause(MSG_TITLE, "new_pass") /\ UNCHANGED rest
               \/ /\ t # <<>>
                  /\ title' = t
                  /\ Goto("due_choice")
                  /\ UNCHANGED <<exc, data, file, pass_start, course, due_date,
                                 status, score, today, view_locals>>

\* choose_due_date: the method prompt.
DueChoice ==
    /\ pc = "due_choice"
    /\ \E i \in DueChoiceInputs :
        /\ inp' = i
        /\ LET choice == strip(i)
           IN  \/ choice = T1("0") /\ ReturnToMain
               \/ /\ choice = T1("1")
                  /\ Goto("due_manual") /\ UNCHANGED rest
               \/ /\ choice = T1("2")
                  /\ \E t \in Todays : today' = t
                  /\ Goto("due_quick")
                  /\ UNCHANGED <<exc, data, file, pass_start, course, title,
                                 due_date, status, score, view_locals>>
               \/ /\ choice \notin {T1("0"), T1("1"), T1("2")}
                  /\ Pause(MSG_SELECTION, "due_choice") /\ UNCHANGED rest

\* choose_due_date: the manual date prompt.
DueManual ==
    /\ pc = "due_manual"
    /\ \E i \in DueManualInputs :
        /\ inp' = i
        /\ LET r == _parse_date_yyyy_mm_dd(strip(i))
           IN  \/ /\ r.ok
                  /\ due_date' = r.date
                  /\ Goto("status")
                  /\ UNCHANGED <<exc, data, file, pass_start, course, title,
                                 status, score, today, view_locals>>
               \/ /\ ~r.ok
                  /\ Pause(MSG_DATE, "due_choice") /\ UNCHANGED rest

\* choose_quick_due_date: options
options(t) == <<AddDays(t, 1), AddDays(t, 3), AddDays(t, 7), AddDays(t, 14)>>

\* choose_quick_due_date: the preset prompt.
DueQuick ==
    /\ pc = "due_quick"
    /\ \E i \in QuickInputs :
        /\ inp' = i
        /\ LET choice == strip(i)
               n == ParseInt(choice)
           IN  \/ choice = T1("0") /\ ReturnToMain
               \/ /\ choice # T1("0") /\ ~n.ok
                  /\ Pause(MSG_NUMBER, "due_quick") /\ UNCHANGED rest
               \/ /\ choice # T1("0") /\ n.ok
                  /\ 1 <= n.val /\ n.val <= Len(options(today))
                  /\ due_date' = options(today)[n.val]
                  /\ today' = None
                  /\ Goto("status")
                  /\ UNCHANGED <<exc, data, file, pass_start, course, title,
                                 status, score, view_locals>>
               \/ /\ choice # T1("0") /\ n.ok
                  /\ ~(1 <= n.val /\ n.val <= Len(options(today)))
                  /\ Pause(MSG_SELECTION, "due_quick") /\ UNCHANGED rest

\* choose_status: the status prompt (default "Not Started").
Status ==
    /\ pc = "status"
    /\ \E i \in StatusInputs :
        /\ inp' = i
        /\ LET choice == strip(i)
               n == ParseInt(choice)
           IN  \/ /\ choice = <<>>
                  /\ status' = NOT_STARTED
                  /\ Goto("score")
                  /\ UNCHANGED <<exc, data, file, pass_start, course, title,
                                 due_date, score, today, view_locals>>
               \/ choice = T1("0") /\ ReturnToMain
               \/ /\ choice \notin {<<>>, T1("0")} /\ ~n.ok
                  /\ Pause(MSG_NUMBER, "status") /\ UNCHANGED rest
               \/ /\ choice \notin {<<>>, T1("0")} /\ n.ok
                  /\ 1 <= n.val /\ n.val <= Len(statuses)
                  /\ status' = statuses[n.val]
                  /\ Goto("score")
                  /\ UNCHANGED <<exc, data, file, pass_start, course, title,
                                 due_date, score, today, view_locals>>
               \/ /\ choice \notin {<<>>, T1("0")} /\ n.ok
                  /\ ~(1 <= n.val /\ n.val <= Len(statuses))
                  /\ Pause(MSG_SELECTION, "status") /\ UNCHANGED rest

score_in_range_no_lower(v) == v.kind = "finite" /\ v.val <= 10000

\* choose_optional_score: 0.0 <= val <= 100.0 (false of nan and of inf)
score_in_range(v) == v.kind = "finite" /\ 0 <= v.val /\ v.val <= 10000

\* choose_optional_score: the score prompt.
Score ==
    /\ pc = "score"
    /\ \E i \in ScoreInputs :
        /\ inp' = i
        /\ LET s == strip(i)
               v == ParseFloat(s)
           IN  \/ /\ s = <<>>
                  /\ score' = None
                  /\ Goto("confirm") /\ UNCHANGED <<exc, data, file, pass_start,
                        course, title, due_date, status, today, view_locals>>
               \/ /\ s # <<>> /\ v.kind = "ValueError"
                  /\ Pause(MSG_SCORE_NUMBER, "score") /\ UNCHANGED rest
               \/ /\ s # <<>> /\ v.kind # "ValueError" /\ score_in_range(v)
                  /\ score' = Some(v.val)
                  /\ Goto("confirm") /\ UNCHANGED <<exc, data, file, pass_start,
                        course, title, due_date, status, today, view_locals>>
               \/ /\ s # <<>> /\ v.kind # "ValueError" /\ ~score_in_range(v)
                  /\ Pause(MSG_SCORE_RANGE, "score") /\ UNCHANGED rest

confirm_declined_only_on_2(choice) == choice = T1("2")

\* add_assignment_flow: choice != "1"
confirm_declined(choice) == choice # T1("1")

\* add_assignment_flow: the record appended.
new_assignment(d, c, t, due, st, sc, now) ==
    [id |-> _next_id(d.assignments),
     course_id |-> c.id,
     title |-> t,
     due_date |-> isoformat(due),
     status |-> st,
     score |-> sc,
     created_at |-> now]

\* add_assignment_flow: the Confirm Save prompt; on "1" the assignment is
\* appended and the state saved.
Confirm ==
    /\ pc = "confirm"
    /\ \E i \in ConfirmInputs :
        /\ inp' = i
        /\ LET choice == strip(i)
           IN  \/ /\ confirm_declined(choice)
                  /\ Pause(MSG_CANCELED, "return") /\ UNCHANGED rest
               \/ /\ ~confirm_declined(choice)
                  /\ Len(data.assignments) < MaxAssignments
                  /\ \E now \in Nows :
                       data' = [data EXCEPT !.assignments =
                                  Append(@, new_assignment(data, course[1], title,
                                                due_date, status, score, now))]
                  /\ file' = _save_data(data')
                  /\ Goto("another")
                  /\ UNCHANGED <<exc, pass_start, add_locals, view_locals>>

\* add_assignment_flow: the prompt after a save.
Another ==
    /\ pc = "another"
    /\ \E i \in AnotherInputs :
        /\ inp' = i
        /\ \/ strip(i) = T1("1") /\ BeginPass
           \/ strip(i) # T1("1") /\ ReturnToMain

\* upcoming_deadlines_flow: the prompt of the empty list.
DeadlinesEmpty ==
    /\ pc = "deadlines_empty"
    /\ inp' = <<>>
    /\ ReturnToMain

\* upcoming_deadlines_flow: the D/M prompt.
DeadlinesChoice ==
    /\ pc = "deadlines_choice"
    /\ \E i \in DeadlinesInputs :
        /\ inp' = i
        /\ LET choice == lower(strip(i))
           IN  \/ choice = T1("m") /\ ReturnToMain
               \/ /\ choice = T1("d")
                  /\ Goto("deadlines_number") /\ UNCHANGED rest
               \/ /\ choice \notin {T1("m"), T1("d")}
                  /\ Pause(MSG_OPTION, "deadlines") /\ UNCHANGED rest

\* upcoming_deadlines_flow: the number prompt; assignment_details_view up
\* to its prompt.
DeadlinesNumber ==
    /\ pc = "deadlines_number"
    /\ \E i \in NumberInputs :
        /\ inp' = i
        /\ LET n == ParseInt(strip(i))
           IN  \/ /\ n.ok /\ 1 <= n.val /\ n.val <= Len(items)
                  /\ detail' = Some(items[n.val])
                  /\ IF _parse_date_yyyy_mm_dd(items[n.val].due_date).ok
                     THEN Goto("details") /\ exc' = exc
                     ELSE Goto("crashed") /\ exc' = "ValueError"
                  /\ UNCHANGED <<data, file, pass_start, add_locals, items,
                                 only_incomplete, grade>>
               \/ /\ n.ok /\ ~(1 <= n.val /\ n.val <= Len(items))
                  /\ Pause(MSG_RANGE, "deadlines") /\ UNCHANGED rest
               \/ /\ ~n.ok
                  /\ Pause(MSG_VALID_NUMBER, "deadlines") /\ UNCHANGED rest

\* assignment_details_view: its prompt; the list is shown again.
Details ==
    /\ pc = "details"
    /\ inp' = <<>>
    /\ ShowDeadlines

\* pick_course and current_grade_flow up to the prompt of the result.
GradePick ==
    /\ pc = "grade_pick"
    /\ \E i \in GradePickInputs :
        /\ inp' = i
        /\ LET choice == strip(i)
               n == ParseInt(choice)
               count == Len(data.courses)
           IN  \/ choice = T1("0") /\ ReturnToMain
               \/ /\ choice # T1("0") /\ ~n.ok
                  /\ Pause(MSG_NUMBER, "grade_pick") /\ UNCHANGED rest
               \/ /\ choice # T1("0") /\ n.ok /\ 1 <= n.val /\ n.val <= count
                  /\ course' = Some(data.courses[n.val])
                  /\ grade' = Some(current_grade(data, data.courses[n.val]))
                  /\ Goto(IF current_grade(data, data.courses[n.val]).nodata
                          THEN "grade_none" ELSE "grade_shown")
                  /\ UNCHANGED <<exc, data, file, pass_start, title, due_date,
                                 status, score, today, items, only_incomplete,
                                 detail>>
               \/ /\ choice # T1("0") /\ n.ok /\ ~(1 <= n.val /\ n.val <= count)
                  /\ Pause(MSG_SELECTION, "grade_pick") /\ UNCHANGED rest

\* current_grade_flow: the prompt under the result.
GradeReturn ==
    /\ pc \in {"grade_none", "grade_shown"}
    /\ inp' = <<>>
    /\ ReturnToMain

\* exit_confirmation
ExitConfirm ==
    /\ pc = "exit_confirm"
    /\ \E i \in ExitInputs :
        /\ inp' = i
        /\ \/ strip(i) = T1("1") /\ Goto("exited") /\ UNCHANGED rest
           \/ strip(i) # T1("1") /\ Goto("menu") /\ UNCHANGED rest

\* The program is run again on the file the last run left.
RunAgain ==
    /\ pc = "exited"
    /\ Goto("start")
    /\ inp' = <<>>
    /\ data' = EmptyData
    /\ UNCHANGED <<exc, file, pass_start, add_locals, view_locals>>

Next ==
    \/ MainStart \/ Menu \/ PressEnter
    \/ CourseChoice \/ CourseName \/ Title
    \/ DueChoice \/ DueManual \/ DueQuick \/ Status \/ Score
    \/ Confirm \/ Another
    \/ DeadlinesEmpty \/ DeadlinesChoice \/ DeadlinesNumber \/ Details
    \/ GradePick \/ GradeReturn
    \/ ExitConfirm \/ RunAgain

Spec == Init /\ [][Next]_vars
(***************************************************************************)
(* The queries on any store: the store is drawn from bounded sets and       *)
(* list_assignments_sorted and the current-grade computation are applied.   *)
(***************************************************************************)
\* The longest assignment list drawn.
MaxStoreLen == 2

StoreCourses == <<[id |-> 1, name |-> <<"A">>], [id |-> 2, name |-> <<"B">>]>>

\* Due-date texts of a store: two dates whose text order is not their date
\* order, date.max itself, and a text that is no date.
StoreDates ==
    {<<"2", "0", "2", "5", "-", "0", "3", "-", "1", "0">>,
     <<"2", "0", "2", "5", "-", "3", "-", "9">>,
     <<"9", "9", "9", "9", "-", "1", "2", "-", "3", "1">>,
     <<"s", "o", "o", "n">>}

StoreIds == {1, 2, 3}

SortAssignments ==
    [id : StoreIds, course_id : {1}, title : {<<"H", "W">>},
     due_date : StoreDates, status : {NOT_STARTED, COMPLETED},
     score : {None}, created_at : Nows]

GradeAssignments ==
    [id : {1}, course_id : {1, 2}, title : {<<"H", "W">>},
     due_date : {isoformat(<<2025, 3, 10>>)}, status : {NOT_STARTED},
     score : {None, Some(0), Some(8000), Some(9000)}, created_at : Nows]

SeqsUpTo(S, n) == UNION {[1..k -> S] : k \in 0..n}

Stores ==
    [courses : {StoreCourses},
     assignments : SeqsUpTo(SortAssignments, MaxStoreLen)
                   \cup SeqsUpTo(GradeAssignments, MaxStoreLen)]

InitStore ==
    /\ pc = "call" /\ resume = "" /\ notice = "" /\ inp = <<>> /\ exc = ""
    /\ data \in Stores
    /\ file = _save_data(data)
    /\ pass_start = None
    /\ course = None /\ title = None /\ due_date = None
    /\ status = None /\ score = None /\ today = None
    /\ items = None /\ only_incomplete = FALSE /\ detail = None /\ grade = None

CallListSorted ==
    /\ pc = "call"
    /\ \E b \in BOOLEAN :
        /\ only_incomplete' = b
        /\ items' = list_assignments_sorted(data, b)
    /\ pc' = "listed"
    /\ UNCHANGED <<resume, notice, inp, exc, data, file, pass_start,
                   add_locals, detail, grade>>

CallCurrentGrade ==
    /\ pc = "call"
    /\ \E n \in 1..Len(data.courses) :
        /\ course' = Some(data.courses[n])
        /\ grade' = Some(current_grade(data, data.courses[n]))
    /\ pc' = "graded"
    /\ UNCHANGED <<resume, notice, inp, exc, data, file, pass_start,
                   title, due_date, status, score, today,
                   items, only_incomplete, detail>>

NextStore == CallListSorted \/ CallCurrentGrade

SpecStore == InitStore /\ [][NextStore]_vars

(***************************************************************************)
(* Properties                                                               *)
(***************************************************************************)
Range(seq) == {seq[i] : i \in 1..Len(seq)}

Count(seq, a) == Cardinality({i \in 1..Len(seq) : seq[i] = a})

\* The date an assignment is ordered by: its due date, date.max when the
\* text is no date.
EffectiveDate(a) ==
    IF _parse_date_yyyy_mm_dd(a.due_date).ok
    THEN _parse_date_yyyy_mm_dd(a.due_date).date
    ELSE <<9999, 12, 31>>

\* What the file holds, as _load_data reads it.
Durable == _load_data(file).data

Waiting == pc \notin {"start", "crashed", "exited"}

\* C1: list_assignments_sorted returns exactly the assignments of the store
\* (without the Completed ones when only_incomplete), each as often as the
\* store holds it, in ascending due date with an unparseable date as
\* date.max, equal dates in ascending id.
C1_ListSorted ==
    pc = "listed" =>
        /\ \A a \in Range(data.assignments) \cup Range(items) :
              Count(items, a) =
                  IF only_incomplete /\ a.status = COMPLETED THEN 0
                  ELSE Count(data.assignments, a)
        /\ \A i, j \in 1..Len(items) :
              i < j =>
                \/ DateLess(EffectiveDate(items[i]), EffectiveDate(items[j]))
                \/ /\ EffectiveDate(items[i]) = EffectiveDate(items[j])
                   /\ items[i].id <= items[j].id

\* C1 witness: an assignment with an unparseable due date and the smaller id
\* was moved behind a dated one.
C1_Witness ==
    /\ pc = "listed" /\ Len(items) = 2
    /\ items # data.assignments
    /\ _parse_date_yyyy_mm_dd(items[1].due_date).ok
    /\ ~_parse_date_yyyy_mm_dd(items[2].due_date).ok
    /\ items[2].id < items[1].id

ScoredAt(c) ==
    {i \in 1..Len(data.assignments) :
        data.assignments[i].course_id = c.id /\ data.assignments[i].score # None}

RECURSIVE SumAt(_)
SumAt(S) ==
    IF S = {} THEN 0
    ELSE LET i == CHOOSE k \in S : TRUE
         IN  data.assignments[i].score[1] + SumAt(S \ {i})

\* C2: the grade computation reports "no data" exactly when no assignment of
\* the course has a score; otherwise the sum and the count of exactly the
\* scores of that course, so that scores of 0 give a grade of 0.
C2_CurrentGrade ==
    pc = "graded" =>
        LET g == grade[1]
            S == ScoredAt(course[1])
        IN  /\ g.nodata <=> S = {}
            /\ S # {} =>
                 /\ g.count = Cardinality(S)
                 /\ g.sum = SumAt(S)
                 /\ \A a \in Range(data.assignments) :
                       Count(g.scored, a) =
                           Cardinality({i \in S : data.assignments[i] = a})

\* C2 witness: a course whose recorded scores are all 0 has the grade 0.
C2_Witness ==
    /\ pc = "graded"
    /\ ScoredAt(course[1]) # {}
    /\ \A i \in ScoredAt(course[1]) : data.assignments[i].score = Some(0)
    /\ ~grade[1].nodata /\ grade[1].sum = 0 /\ grade[1].count = 2

ScoreStorable(sc) == sc = None \/ (0 <= sc[1] /\ sc[1] <= 10000)

\* C3: every assignment's score, in the store and in the file, and the score
\* the flow is about to save, is absent or within [0, 100].
C3_ScoreInRange ==
    /\ \A a \in Range(data.assignments) : ScoreStorable(a.score)
    /\ LET kept == Durable.assignments
       IN  \A a \in Range(kept) : ScoreStorable(a.score)
    /\ ScoreStorable(score)

\* C3 witness: a score of exactly 0 and one of exactly 100 are in the file.
C3_Witness ==
    /\ \E a \in Range(Durable.assignments) : a.score = Some(0)
    /\ \E a \in Range(Durable.assignments) : a.score = Some(10000)

NormalizedName(name) == lower(strip(name))

NoDuplicateNames(courses) ==
    LET norm == [i \in 1..Len(courses) |-> NormalizedName(courses[i].name)]
    IN  \A i, j \in 1..Len(courses) : i # j => norm[i] # norm[j]

\* C4: no two courses have the same name after trimming and lower-casing,
\* and a name that matches an existing course returns that course and adds
\* none.
C4_UniqueCourseNames ==
    /\ NoDuplicateNames(data.courses)
    /\ LET kept == Durable.courses
       IN  kept = data.courses \/ NoDuplicateNames(kept)
    /\ (pc = "pause" /\ notice = MSG_EXISTS) =>
          /\ course # None
          /\ course[1] \in Range(pass_start[1].data.courses)
          /\ NormalizedName(course[1].name) = NormalizedName(inp)
          /\ data.courses = pass_start[1].data.courses
          /\ Durable.courses = pass_start[1].data.courses

\* C4 witness: a name typed in another case and with surrounding whitespace
\* found the seeded course.
C4_Witness ==
    /\ pc = "pause" /\ notice = MSG_EXISTS
    /\ course[1].id = 3
    /\ inp # course[1].name
    /\ strip(inp) # course[1].name

IdsOf(seq) == {seq[i].id : i \in 1..Len(seq)}

MaxOf(S) == IF S = {} THEN 0 ELSE CHOOSE m \in S : \A x \in S : x <= m

AppendedWithNextId(old, new) ==
    Len(new) > Len(old) =>
        /\ Len(new) = Len(old) + 1
        /\ SubSeq(new, 1, Len(old)) = old
        /\ new[Len(new)].id = 1 + MaxOf(IdsOf(old))

DistinctIds(seq) == \A i, j \in 1..Len(seq) : i # j => seq[i].id # seq[j].id

CreationStep ==
    pc \in {"course_name", "confirm"} =>
        /\ AppendedWithNextId(data.courses, data'.courses)
        /\ AppendedWithNextId(data.assignments, data'.assignments)

\* C5: a course made by choose_or_create_course and an assignment made by
\* add_assignment_flow get 1 + the greatest id of their collection (1 when it
\* is empty), and the ids of a collection are pairwise distinct.
C5_IdAllocation ==
    /\ [][CreationStep]_vars
    /\ [](DistinctIds(data.courses) /\ DistinctIds(data.assignments))

\* C5 witness: a fourth course and a second assignment were created.
C5_Witness ==
    /\ Len(data.courses) = 4 /\ data.courses[4].id = 4
    /\ Len(data.assignments) = 2
    /\ data.assignments[1].id = 1 /\ data.assignments[2].id = 2

CourseIdsValid(d) ==
    \A a \in Range(d.assignments) : \E c \in Range(d.courses) : c.id = a.course_id

\* C6: every assignment's course_id is the id of a course of the store, in
\* memory and in the file.
C6_CourseIdValid ==
    /\ CourseIdsValid(data)
    /\ LET kept == Durable
       IN  CourseIdsValid(kept)

\* C6 witness: an assignment of a course created in the flow is in the file.
C6_Witness ==
    /\ Waiting
    /\ \E a \in Range(Durable.assignments) : a.course_id = 4
    /\ \E a \in Range(Durable.assignments) : a.course_id = 1

TitleRejected == pc = "pause" /\ notice = MSG_TITLE

\* C7 as claimed: after a blank title both collections, in memory and in the
\* file, have the sizes they had when the pass began.
C7_BlankTitleNoMutation ==
    TitleRejected =>
        /\ Len(data.courses) = Len(pass_start[1].data.courses)
        /\ Len(data.assignments) = Len(pass_start[1].data.assignments)
        /\ Len(Durable.courses) = Len(pass_start[1].data.courses)
        /\ Len(Durable.assignments) = Len(pass_start[1].data.assignments)

GrownByChosenCourse(old, new) ==
    \/ new = old
    \/ /\ course # None
       /\ new = Append(old, course[1])
       /\ course[1].id = 1 + MaxOf(IdsOf(old))

\* C7 amended: a title is accepted only if it is not blank; after a blank
\* title no assignment was appended (the assignments, in memory and in the
\* file, are those of the start of the pass) and the courses are those of
\* the start of the pass, plus the course the course prompt of this pass
\* created and saved, if it created one.
C7_BlankTitleNoAssignment ==
    /\ title # <<>> => title = strip(title)
    /\ \A a \in Range(data.assignments) : strip(a.title) # <<>>
    /\ TitleRejected =>
          LET kept == Durable
          IN  /\ strip(inp) = <<>>
              /\ data.assignments = pass_start[1].data.assignments
              /\ kept.assignments = pass_start[1].data.assignments
              /\ GrownByChosenCourse(pass_start[1].data.courses, data.courses)
              /\ kept.courses = data.courses

\* C7 witness: a whitespace-only title was rejected after the course prompt
\* had created a course.
C7_Witness ==
    /\ TitleRejected
    /\ inp = <<" ", "\t">>
    /\ Len(data.courses) = Len(pass_start[1].data.courses) + 1

\* C8: a file that cannot be parsed as the expected state (bytes that are
\* no text, malformed JSON, JSON that is no object) loads as the empty state
\* and no exception leaves _load_data: the run that began with such a file
\* did not end with an exception.
C8_UnparseableFileLoadsEmpty ==
    (/\ pc # "start"
     /\ (file.kind = "bytes" \/ (file.kind = "text" /\ DOMAIN file.json # {"obj"})))
    => /\ _load_data(file) = [raised |-> "", data |-> EmptyData]
       /\ exc = ""

\* C9: whenever the program waits for input, the file loads as the state in
\* memory.
C9_MemoryIsDurable ==
    Waiting => _load_data(file) = [raised |-> "", data |-> data]

\* C9 witness: the program waits after a course and an assignment were made.
C9_Witness ==
    /\ pc = "another"
    /\ Len(data.courses) = 4
    /\ Len(data.assignments) = 2

Canceled == pc = "pause" /\ notice = MSG_CANCELED

=============================================================================
